---- MODULE Spec2Model ----
(***************************************************************************)
(* Visitors of diffpy.srfit.equation.visitors over a Literal tree:         *)
(*   Printer   (printer.py)   renders the tree into the string `output`,   *)
(*   ArgFinder (argfinder.py) collects the Argument leaves into `args`.    *)
(* A traversal is the recursive call tree literal.identify(visitor) ->     *)
(* visitor.onArgument / visitor.onOperator.  It is modelled with an        *)
(* explicit call stack per visitor: one step runs the frame on top of the  *)
(* stack up to its next identify() call, its return, or its raise.         *)
(*                                                                         *)
(* Python str objects are modelled as sequences of one-character strings,  *)
(* so that concatenation, first and last character are ordinary sequence   *)
(* operations.                                                             *)
(***************************************************************************)
EXTENDS Integers, Sequences, FiniteSets, TLC

\* Largest number of children (len(op.args)) of an operator of the model.
MaxArgs == 3

\* Largest number of traversals the client runs with one visitor.
MaxRuns == 2

(***************************************************************************)
(* Python values.                                                          *)
(***************************************************************************)
PyNone == [type |-> "NoneType"]

PyStr(s) == [type |-> "str", s |-> s]

PyInt(n) == [type |-> "int", n |-> n]

\* A float whose value is the integer n (3.0 is PyFloat(3)).
PyFloat(n) == [type |-> "float", n |-> n]

PyList(items) == [type |-> "list", items |-> items]

Digits == <<"0", "1", "2", "3", "4", "5", "6", "7", "8", "9">>

RECURSIVE StrNat(_)
StrNat(n) ==
    IF n < 10 THEN <<Digits[n + 1]>>
    ELSE StrNat(n \div 10) \o <<Digits[(n % 10) + 1]>>

StrInt(n) == IF n < 0 THEN <<"-">> \o StrNat(-n) ELSE StrNat(n)

\* Python's str(): the characters of the text of a value.
str(o) ==
    CASE o.type = "str" -> o.s
      [] o.type = "int" -> StrInt(o.n)
      [] o.type = "float" -> StrInt(o.n) \o <<".", "0">>
      [] o.type = "NoneType" -> <<"N", "o", "n", "e">>

(***************************************************************************)
(* Literal nodes, as the visitors read them.                               *)
(***************************************************************************)
Argument(id, name, value, const) ==
    [cls |-> "Argument", id |-> id, name |-> name, value |-> value,
     const |-> const]

Operator(name, symbol, nin, opargs) ==
    [cls |-> "Operator", name |-> name, symbol |-> symbol, nin |-> nin,
     args |-> opargs]

\* The Argument leaves of the model: named or not, constant or not, with
\* an int or a float value.  `id` is the identity of the Python object.
ArgX == Argument(1, PyStr(<<"x">>), PyFloat(-12), FALSE)

ArgY == Argument(2, PyStr(<<"y">>), PyInt(7), TRUE)

ArgTwo == Argument(3, PyNone, PyInt(2), TRUE)

ArgThree == Argument(4, PyNone, PyFloat(3), FALSE)

\* The leaves, in an order that alternates named and unnamed ones.
LeafRing == <<ArgX, ArgTwo, ArgY, ArgThree>>

Leaves == {LeafRing[i] : i \in 1..Len(LeafRing)}

\* name, symbol and nin of the operators of the model: the four outcomes of
\* the test `op.name != op.symbol and op.nin == 2`, and nin = 0.
OpHead(name, symbol, nin) == [name |-> name, symbol |-> symbol, nin |-> nin]

HeadAdd == OpHead(PyStr(<<"a", "d", "d">>), PyStr(<<"+">>), 2)

HeadMul == OpHead(PyStr(<<"m", "u", "l">>), PyStr(<<"*">>), 2)

HeadPow == OpHead(PyStr(<<"p", "o", "w">>), PyStr(<<"p", "o", "w">>), 2)

HeadSin == OpHead(PyStr(<<"s", "i", "n">>), PyStr(<<"s", "i", "n">>), 1)

HeadNeg == OpHead(PyStr(<<"n", "e", "g">>), PyStr(<<"-">>), 1)

HeadF == OpHead(PyStr(<<"f">>), PyStr(<<"f">>), 0)

Heads == {HeadAdd, HeadMul, HeadPow, HeadSin, HeadNeg, HeadF}

Op(h, opargs) == Operator(h.name, h.symbol, h.nin, opargs)

\* k leaves: those of the ring from the j-th on (step = 1), or the j-th leaf
\* k times, the same Argument object shared (step = 0).
Window(j, step, k) ==
    [i \in 1..k |-> LeafRing[((j - 1 + step * (i - 1)) % Len(LeafRing)) + 1]]

LeafSeqs ==
    {Window(j, step, k) : j \in 1..Len(LeafRing), step \in {0, 1},
                          k \in 0..MaxArgs}

\* Operators over leaves: every head with 0..MaxArgs children, so that
\* len(args) agrees with nin in some trees and not in others.
FlatTrees == {Op(h, cs) : h \in Heads, cs \in LeafSeqs}

InnerArgs == <<ArgX, ArgY>>

InnerTrees ==
    {Op(h, SubSeq(InnerArgs, 1, k)) : h \in Heads, k \in 0..Len(InnerArgs)}

\* Operators over operators: an inner operator alone, left of a leaf,
\* right of a leaf and as a third child.
NestedArgs(i) ==
    {cs \in {<<i>>, <<i, ArgTwo>>, <<ArgTwo, i>>, <<ArgTwo, ArgThree, i>>} :
        Len(cs) <= MaxArgs}

NestedTrees ==
    {Op(h, cs) : h \in Heads, cs \in UNION {NestedArgs(i) : i \in InnerTrees}}

Trees == Leaves \cup FlatTrees \cup NestedTrees

\* The literals reachable from t, t included.
RECURSIVE Literals(_)
Literals(t) ==
    IF t.cls = "Argument" THEN {t}
    ELSE {t} \cup UNION {Literals(t.args[i]) : i \in 1..Len(t.args)}

(***************************************************************************)
(* State.                                                                  *)
(*   tree       the Literal tree the client holds                          *)
(*   kind       class of each visitor instance ("Printer" / "ArgFinder")   *)
(*   getconsts  ArgFinder.getconsts (unused by a Printer)                  *)
(*   output     Printer.output                                             *)
(*   args       ArgFinder.args                                             *)
(*   stack      the frames of the traversal in progress, the running one   *)
(*              last; a frame is a method, its node and its position       *)
(*   status     "idle", "running", "returned" (the root call returned) or  *)
(*              "raised" (IndexError left the root call)                   *)
(*   ret        the value the last root call returned                      *)
(*   root       the node the last traversal was started on                 *)
(*   start      the accumulator (output or args) when it was started       *)
(*   runs       traversals started since construction                      *)
(*   sinceReset traversals started since construction or the last reset()  *)
(*   ctor       the getconsts argument of the constructor                  *)
(*   done       the traversals that returned, oldest first: the root, the  *)
(*              values of runs (k) and sinceReset (n) during the traversal *)
(*              and the accumulator when it began and when it returned     *)
(***************************************************************************)
VARIABLES tree, kind, getconsts, output, args, stack, status, ret, root,
          start, runs, sinceReset, ctor, done

vars == <<tree, kind, getconsts, output, args, stack, status, ret, root,
          start, runs, sinceReset, ctor, done>>

Visitors == DOMAIN kind

\* Printer() and ArgFinder(getconsts): the state a constructor leaves.
Printer_init == [kind |-> "Printer", getconsts |-> TRUE]

ArgFinder_init(gc) == [kind |-> "ArgFinder", getconsts |-> gc]

Constructed == {Printer_init} \cup {ArgFinder_init(gc) : gc \in BOOLEAN}

\* The client holds a tree of T and one freshly constructed visitor per
\* element of V.
InitWith(V, T) ==
    /\ tree \in T
    /\ \E c \in [V -> Constructed] :
          /\ kind = [v \in V |-> c[v].kind]
          /\ getconsts = [v \in V |-> c[v].getconsts]
          /\ ctor = [v \in V |-> c[v].getconsts]
    /\ output = [v \in V |-> <<>>]
    /\ args = [v \in V |-> <<>>]
    /\ stack = [v \in V |-> <<>>]
    /\ status = [v \in V |-> "idle"]
    /\ ret = [v \in V |-> PyNone]
    /\ root = [v \in V |-> tree]
    /\ start = [v \in V |-> <<>>]
    /\ runs = [v \in V |-> 0]
    /\ sinceReset = [v \in V |-> 0]
    /\ done = [v \in V |-> <<>>]

(***************************************************************************)
(* Calls, returns and raises.                                              *)
(***************************************************************************)
Top(v) == stack[v][Len(stack[v])]

Frame(fn, node) == [fn |-> fn, node |-> node, pc |-> "start", idx |-> 0]

\* Literal.identify(visitor): an Argument calls visitor.onArgument(self),
\* an Operator calls visitor.onOperator(self).
identify(literal) ==
    IF literal.cls = "Argument" THEN Frame("onArgument", literal)
    ELSE Frame("onOperator", literal)

\* Python indexes from 0.
InRange(seq, i) == i < Len(seq)

At(seq, i) == seq[i + 1]

\* The running frame moves to (pc, idx) and calls frame f.
Call(v, pc, idx, f) ==
    /\ stack' = [stack EXCEPT ![v] =
            Append([@ EXCEPT ![Len(@)] = [@ EXCEPT !.pc = pc, !.idx = idx]], f)]
    /\ UNCHANGED <<status, ret, done>>

\* The running frame returns value, leaving the accumulator acc; the root
\* call's value reaches the client.
Return(v, value, acc) ==
    /\ stack' = [stack EXCEPT ![v] = SubSeq(@, 1, Len(@) - 1)]
    /\ IF Len(stack[v]) = 1
       THEN /\ status' = [status EXCEPT ![v] = "returned"]
            /\ ret' = [ret EXCEPT ![v] = value]
            /\ done' = [done EXCEPT ![v] = Append(@,
                    [root |-> root[v], k |-> runs[v], n |-> sinceReset[v],
                     start |-> start[v], out |-> acc])]
       ELSE UNCHANGED <<status, ret, done>>

\* IndexError: no frame catches it, it leaves the root call.
Raise(v) ==
    /\ stack' = [stack EXCEPT ![v] = <<>>]
    /\ status' = [status EXCEPT ![v] = "raised"]
    /\ UNCHANGED <<ret, done>>

Running(v, fn) ==
    /\ status[v] = "running"
    /\ Top(v).fn = fn

(***************************************************************************)
(* The client.                                                             *)
(***************************************************************************)
\* literal.identify(visitor) on a visitor that is not in a traversal.
Begin(v, literal) ==
    /\ status[v] # "running"
    /\ runs[v] < MaxRuns
    /\ stack' = [stack EXCEPT ![v] = <<identify(literal)>>]
    /\ status' = [status EXCEPT ![v] = "running"]
    /\ root' = [root EXCEPT ![v] = literal]
    /\ start' = [start EXCEPT ![v] =
                    IF kind[v] = "Printer" THEN output[v] ELSE args[v]]
    /\ runs' = [runs EXCEPT ![v] = @ + 1]
    /\ sinceReset' = [sinceReset EXCEPT ![v] = @ + 1]
    /\ UNCHANGED <<tree, kind, getconsts, ctor, output, args, ret, done>>

(***************************************************************************)
(* ArgFinder.                                                              *)
(***************************************************************************)
\* reset() that leaves the collected Arguments in place.
ArgFinder_reset_KeepArgs(v) ==
    /\ kind[v] = "ArgFinder"
    /\ status[v] # "running"
    /\ status' = [status EXCEPT ![v] = "idle"]
    /\ sinceReset' = [sinceReset EXCEPT ![v] = 0]
    /\ UNCHANGED <<tree, kind, getconsts, ctor, output, args, stack, ret, root,
                   start, runs, done>>

ArgFinder_reset(v) ==
    /\ kind[v] = "ArgFinder"
    /\ status[v] # "running"
    /\ args' = [args EXCEPT ![v] = <<>>]
    /\ status' = [status EXCEPT ![v] = "idle"]
    /\ sinceReset' = [sinceReset EXCEPT ![v] = 0]
    /\ UNCHANGED <<tree, kind, getconsts, ctor, output, stack, ret, root,
                   start, runs, done>>

\* Collect with every Argument object kept once.
Collect_Dedup(list, arg, gc) ==
    IF (gc \/ ~arg.const) /\ \A i \in 1..Len(list) : list[i] # arg
    THEN Append(list, arg)
    ELSE list

\* Collect with getconsts ignored.
Collect_IgnoreFlag(list, arg, gc) == Append(list, arg)

\* Lines 53-54: self.args after onArgument(arg), from self.args = list.
Collect(list, arg, gc) == IF gc \/ ~arg.const THEN Append(list, arg) ELSE list

\* onArgument with args a list shared by every ArgFinder instance.
ArgFinder_onArgument_Shared(v) ==
    /\ kind[v] = "ArgFinder"
    /\ Running(v, "onArgument")
    /\ LET new == Collect(args[v], Top(v).node, getconsts[v])
       IN  /\ args' = [u \in Visitors |->
                        IF kind[u] = "ArgFinder" THEN new ELSE args[u]]
           /\ Return(v, PyList(new), new)
    /\ UNCHANGED <<tree, kind, getconsts, ctor, output, root, start, runs,
                   sinceReset>>

ArgFinder_onArgument(v) ==
    /\ kind[v] = "ArgFinder"
    /\ Running(v, "onArgument")
    /\ LET new == Collect(args[v], Top(v).node, getconsts[v])
       IN  /\ args' = [args EXCEPT ![v] = new]
           /\ Return(v, PyList(new), new)
    /\ UNCHANGED <<tree, kind, getconsts, ctor, output, root, start, runs,
                   sinceReset>>

ArgFinder_onOperator(v) ==
    /\ kind[v] = "ArgFinder"
    /\ Running(v, "onOperator")
    /\ LET op == Top(v).node
           idx == Top(v).idx
       IN  IF InRange(op.args, idx)
           THEN Call(v, "loop", idx + 1, identify(At(op.args, idx)))
           ELSE Return(v, PyList(args[v]), args[v])
    /\ UNCHANGED <<tree, kind, getconsts, ctor, output, args, root, start,
                   runs, sinceReset>>

(***************************************************************************)
(* Printer.                                                                *)
(***************************************************************************)
\* reset() that leaves the output in place.
Printer_reset_KeepOutput(v) ==
    /\ kind[v] = "Printer"
    /\ status[v] # "running"
    /\ status' = [status EXCEPT ![v] = "idle"]
    /\ sinceReset' = [sinceReset EXCEPT ![v] = 0]
    /\ UNCHANGED <<tree, kind, getconsts, ctor, output, args, stack, ret, root,
                   start, runs, done>>

Printer_reset(v) ==
    /\ kind[v] = "Printer"
    /\ status[v] # "running"
    /\ output' = [output EXCEPT ![v] = <<>>]
    /\ status' = [status EXCEPT ![v] = "idle"]
    /\ sinceReset' = [sinceReset EXCEPT ![v] = 0]
    /\ UNCHANGED <<tree, kind, getconsts, ctor, args, stack, ret, root, start,
                   runs, done>>

Printer_onArgument(v) ==
    /\ kind[v] = "Printer"
    /\ Running(v, "onArgument")
    /\ LET arg == Top(v).node
           new == IF arg.name = PyNone
                  THEN output[v] \o str(arg.value)
                  ELSE output[v] \o str(arg.name)
       IN  /\ output' = [output EXCEPT ![v] = new]
           /\ Return(v, PyStr(new), new)
    /\ UNCHANGED <<tree, kind, getconsts, ctor, args, root, start, runs,
                   sinceReset>>

\* The test with the name left out: every binary operator is infix.
IsInfix_ArityOnly(op) == op.nin = 2

\* The test with the arity left out.
IsInfix_NameOnly(op) == op.name # op.symbol

\* The test of printer.py line 58.
IsInfix(op) == op.name # op.symbol /\ op.nin = 2

\* The separator written before the first child too.
Separator_Always(idx) == <<",", " ">>

\* Line 65: what onOperator writes before the child of index idx.
Separator(idx) == IF idx # 0 THEN <<",", " ">> ELSE <<>>

\* One pass of the for loop of onOperator (lines 64-66), or, after the
\* last child, lines 68-69; out is self.output when the pass begins.
Printer_loop(v, op, idx, out) ==
    IF InRange(op.args, idx)
    THEN /\ output' = [output EXCEPT ![v] = out \o Separator(idx)]
         /\ Call(v, "loop", idx + 1, identify(At(op.args, idx)))
    ELSE /\ output' = [output EXCEPT ![v] = out \o <<")">>]
         /\ Return(v, PyStr(out \o <<")">>), out \o <<")">>)

Printer_onOperator(v) ==
    /\ kind[v] = "Printer"
    /\ Running(v, "onOperator")
    /\ LET op == Top(v).node
           pc == Top(v).pc
       IN  CASE pc = "start" /\ IsInfix(op) ->
                  /\ Call(v, "infix_done", 0, Frame("_onInfix", op))
                  /\ UNCHANGED output
             [] pc = "infix_done" ->
                  /\ Return(v, PyNone, output[v])
                  /\ UNCHANGED output
             [] pc = "start" /\ ~IsInfix(op) ->
                  Printer_loop(v, op, 0, output[v] \o str(op.name) \o <<"(">>)
             [] pc = "loop" ->
                  Printer_loop(v, op, Top(v).idx, output[v])
    /\ UNCHANGED <<tree, kind, getconsts, ctor, args, root, start, runs,
                   sinceReset>>

\* The symbol without the blanks around it.
FormatSymbol_NoBlanks(symbol) == str(symbol)

\* " %s " % op.symbol
FormatSymbol(symbol) == <<" ">> \o str(symbol) \o <<" ">>

Printer_onInfix(v) ==
    /\ kind[v] = "Printer"
    /\ Running(v, "_onInfix")
    /\ LET op == Top(v).node
           pc == Top(v).pc
       IN  CASE pc = "start" ->
                  /\ output' = [output EXCEPT ![v] = @ \o <<"(">>]
                  /\ IF InRange(op.args, 0)
                     THEN Call(v, "lhs_done", 0, identify(At(op.args, 0)))
                     ELSE Raise(v)
             [] pc = "lhs_done" ->
                  /\ output' = [output EXCEPT ![v] = @ \o FormatSymbol(op.symbol)]
                  /\ IF InRange(op.args, 1)
                     THEN Call(v, "rhs_done", 0, identify(At(op.args, 1)))
                     ELSE Raise(v)
             [] pc = "rhs_done" ->
                  /\ output' = [output EXCEPT ![v] = @ \o <<")">>]
                  /\ Return(v, PyNone, output[v] \o <<")">>)
    /\ UNCHANGED <<tree, kind, getconsts, ctor, args, root, start, runs,
                   sinceReset>>

(***************************************************************************)
(* Specifications.                                                         *)
(***************************************************************************)
\* One thread: a client with one visitor, which it reuses.
Init == InitWith({1}, Trees)

Next ==
    \E v \in Visitors :
        \/ \E literal \in Literals(tree) : Begin(v, literal)
        \/ ArgFinder_reset(v)
        \/ ArgFinder_onArgument(v)
        \/ ArgFinder_onOperator(v)
        \/ Printer_reset(v)
        \/ Printer_onArgument(v)
        \/ Printer_onOperator(v)
        \/ Printer_onInfix(v)

Spec == Init /\ [][Next]_vars

\* Two threads, each with a visitor of its own, traverse the same tree at
\* the same time, their steps interleaved in every order.
ConcTrees ==
    FlatTrees \cup {Op(h, <<Op(i, InnerArgs), ArgTwo>>) : h, i \in Heads}

InitConc == InitWith({1, 2}, ConcTrees)

BeginOnce(v, literal) == runs[v] = 0 /\ Begin(v, literal)

NextConc ==
    \E v \in Visitors :
        \/ \E literal \in Literals(tree) : BeginOnce(v, literal)
        \/ ArgFinder_onArgument(v)
        \/ ArgFinder_onOperator(v)
        \/ Printer_onArgument(v)
        \/ Printer_onOperator(v)
        \/ Printer_onInfix(v)

SpecConc == InitConc /\ [][NextConc]_vars

(***************************************************************************)
(* The rendering and the harvest as the specification states them, by      *)
(* recursion on the tree.                                                  *)
(***************************************************************************)
RECURSIVE Join(_)
Join(texts) ==
    IF Len(texts) = 0 THEN <<>>
    ELSE IF Len(texts) = 1 THEN texts[1]
    ELSE texts[1] \o <<",", " ">> \o Join(Tail(texts))

RECURSIVE Render(_)
Render(t) ==
    IF t.cls = "Argument"
    THEN IF t.name = PyNone THEN str(t.value) ELSE t.name.s
    ELSE IF t.nin = 2 /\ t.name # t.symbol
    THEN <<"(">> \o Render(t.args[1]) \o <<" ">> \o t.symbol.s \o <<" ">>
         \o Render(t.args[2]) \o <<")">>
    ELSE t.name.s \o <<"(">>
         \o Join([i \in 1..Len(t.args) |-> Render(t.args[i])]) \o <<")">>

\* name(arg0, ..., argN-1)
CallForm(t) ==
    t.name.s \o <<"(">>
    \o Join([i \in 1..Len(t.args) |-> Render(t.args[i])]) \o <<")">>

\* The Argument occurrences of t, left to right, depth first.
RECURSIVE Occurrences(_)
Occurrences(t) ==
    IF t.cls = "Argument" THEN <<t>>
    ELSE IF Len(t.args) = 0 THEN <<>>
    ELSE Occurrences([t EXCEPT !.args = SubSeq(@, 1, Len(@) - 1)])
         \o Occurrences(t.args[Len(t.args)])

RECURSIVE CountArguments(_, _)
CountArguments(t, i) ==
    IF t.cls = "Argument" THEN 1
    ELSE IF i > Len(t.args) THEN 0
    ELSE CountArguments(t.args[i], 1) + CountArguments(t, i + 1)

\* A Printer whose output was empty when the traversal of root[v] began
\* and whose root call has returned.
Rendered(v) ==
    /\ kind[v] = "Printer"
    /\ status[v] = "returned"
    /\ start[v] = <<>>

\* C1: a binary operator (nin = 2) with name != symbol, rendered by a
\* Printer whose output was empty, leaves output =
\* "(" + render(args[0]) + " " + symbol + " " + render(args[1]) + ")",
\* at every nesting depth.
C1_InfixRendering ==
    \A v \in Visitors :
        (/\ Rendered(v)
         /\ root[v].cls = "Operator"
         /\ root[v].nin = 2
         /\ root[v].name # root[v].symbol)
        => output[v] = <<"(">> \o Render(root[v].args[1]) \o <<" ">>
                       \o root[v].symbol.s \o <<" ">>
                       \o Render(root[v].args[2]) \o <<")">>

\* mul(add(x, y), 2) has been rendered: "((x + y) * 2)".
C1_Witness ==
    \E v \in Visitors :
        /\ Rendered(v)
        /\ root[v] = Op(HeadMul, <<Op(HeadAdd, <<ArgX, ArgY>>), ArgTwo>>)
        /\ output[v] = <<"(", "(", "x", " ", "+", " ", "y", ")", " ", "*",
                         " ", "2", ")">>

\* C2: an operator with nin != 2 (0 included), rendered by a Printer whose
\* output was empty, leaves output = name + "(" + the renders of its
\* children in order joined by ", " + ")"; with no children, name + "()".
C2_CallRendering ==
    \A v \in Visitors :
        (/\ Rendered(v)
         /\ root[v].cls = "Operator"
         /\ root[v].nin # 2)
        => /\ output[v] = CallForm(root[v])
           /\ Len(root[v].args) = 0
                => output[v] = root[v].name.s \o <<"(", ")">>

\* sin(3.0) has been rendered.
C2_Witness ==
    \E v \in Visitors :
        /\ Rendered(v)
        /\ root[v] = Op(HeadSin, <<ArgThree>>)
        /\ output[v] = <<"s", "i", "n", "(", "3", ".", "0", ")">>

\* C3 as amended: a binary operator (nin = 2) whose name differs from its
\* symbol is rendered fully parenthesized, beginning with "(" and ending
\* with ")"; every other operator, a binary one whose name equals its
\* symbol included, is rendered as name(arg0, ..., argN-1).
C3_BinaryRendering ==
    \A v \in Visitors :
        (Rendered(v) /\ root[v].cls = "Operator")
        => IF root[v].nin = 2 /\ root[v].name # root[v].symbol
           THEN /\ output[v][1] = "("
                /\ output[v][Len(output[v])] = ")"
           ELSE /\ output[v] = CallForm(root[v])
                /\ output[v][1] # "("

\* pow(x, y), binary with name = symbol, has been rendered as a call.
C3_Witness ==
    \E v \in Visitors :
        /\ Rendered(v)
        /\ root[v] = Op(HeadPow, <<ArgX, ArgY>>)
        /\ output[v] = <<"p", "o", "w", "(", "x", ",", " ", "y", ")">>

\* C3 as stated: every binary operator, whatever its name and symbol, is
\* rendered beginning with "(" and ending with ")"; only the operators
\* that are not binary are rendered as name(arg0, ..., argN-1).
C3_Original ==
    \A v \in Visitors :
        (Rendered(v) /\ root[v].cls = "Operator")
        => IF root[v].nin = 2
           THEN /\ output[v][1] = "("
                /\ output[v][Len(output[v])] = ")"
           ELSE output[v] = CallForm(root[v])

\* C4 as stated: the value the traversal call on the root returns is the
\* visitor's accumulator (printer.output / argfinder.args) at the moment
\* the call returns, for every root, an infix binary operator included.
C4_ReturnsAccumulator ==
    \A v \in Visitors :
        status[v] = "returned"
        => ret[v] = IF kind[v] = "Printer" THEN PyStr(output[v])
                    ELSE PyList(args[v])

\* Traversal j of v is the call after traversal i, with no reset() between.
InARow(v, i, j) ==
    /\ done[v][j].k = done[v][i].k + 1
    /\ done[v][j].n = done[v][i].n + 1

\* What traversal i of v appended to the accumulator.
Appended(v, i) ==
    SubSeq(done[v][i].out, Len(done[v][i].start) + 1, Len(done[v][i].out))

\* C5 as amended: two renders of the same tree by one Printer give the same
\* string when each is the first since the Printer was constructed or
\* reset(), its output then empty; with no reset() between two renders in a row
\* the second leaves the output of the first followed by the text of the
\* tree once more.
C5_RenderTwice ==
    \A v \in Visitors :
        kind[v] = "Printer" =>
            \A i, j \in 1..Len(done[v]) :
                (i < j /\ done[v][i].root = done[v][j].root)
                => /\ (done[v][i].n = 1 /\ done[v][j].n = 1)
                        => done[v][j].out = done[v][i].out
                   /\ InARow(v, i, j)
                        => done[v][j].out = done[v][i].out \o Appended(v, i)

\* A Printer rendered add(x, y), was reset and rendered it again.
C5_Witness ==
    \E v \in Visitors :
        /\ kind[v] = "Printer"
        /\ Len(done[v]) = 2
        /\ done[v][1].root = Op(HeadAdd, <<ArgX, ArgTwo>>)
        /\ done[v][2].root = done[v][1].root
        /\ done[v][1].n = 1
        /\ done[v][2].n = 1
        /\ done[v][2].out = <<"(", "x", " ", "+", " ", "2", ")">>

\* C5 as stated: two renders of the same tree in a row by one Printer,
\* with no reset() between them, leave identical strings.
C5_Original ==
    \A v \in Visitors :
        kind[v] = "Printer" =>
            \A i, j \in 1..Len(done[v]) :
                (done[v][i].root = done[v][j].root /\ InARow(v, i, j))
                => done[v][j].out = done[v][i].out

NotConst(arg) == ~arg.const

\* C6: a fresh ArgFinder(getconsts=True) leaves args = the Argument
\* occurrences of the tree, left to right and depth first, one entry per
\* occurrence (a shared Argument once per occurrence) and none for an
\* operator.
C6_Harvest ==
    \A v \in Visitors :
        (/\ kind[v] = "ArgFinder"
         /\ getconsts[v]
         /\ status[v] = "returned"
         /\ start[v] = <<>>)
        => /\ args[v] = Occurrences(root[v])
           /\ Len(args[v]) = CountArguments(root[v], 1)
           /\ \A i \in 1..Len(args[v]) : args[v][i].cls = "Argument"

\* The harvest of pow(x, x, x), one Argument shared by three places.
C6_Witness ==
    \E v \in Visitors :
        /\ kind[v] = "ArgFinder"
        /\ getconsts[v]
        /\ status[v] = "returned"
        /\ start[v] = <<>>
        /\ root[v] = Op(HeadPow, <<ArgX, ArgX, ArgX>>)
        /\ args[v] = <<ArgX, ArgX, ArgX>>

\* C7: on the same tree, the result of a fresh ArgFinder(getconsts=False)
\* is the result of a fresh ArgFinder(getconsts=True) with the constant
\* occurrences removed and the order of the others kept; it holds no
\* constant Argument.
C7_ConstFilter ==
    \A v, w \in Visitors :
        (/\ kind[v] = "ArgFinder" /\ kind[w] = "ArgFinder"
         /\ getconsts[v] /\ ~getconsts[w]
         /\ status[v] = "returned" /\ status[w] = "returned"
         /\ start[v] = <<>> /\ start[w] = <<>>
         /\ root[v] = root[w])
        => /\ args[w] = SelectSeq(args[v], NotConst)
           /\ \A i \in 1..Len(args[w]) : ~args[w][i].const

\* add(y, 3.0), y constant: [y, 3.0] with getconsts and [3.0] without.
C7_Witness ==
    \E v, w \in Visitors :
        /\ kind[v] = "ArgFinder" /\ kind[w] = "ArgFinder"
        /\ getconsts[v] /\ ~getconsts[w]
        /\ status[v] = "returned" /\ status[w] = "returned"
        /\ root[v] = Op(HeadAdd, <<ArgY, ArgThree>>)
        /\ root[w] = root[v]
        /\ args[v] = <<ArgY, ArgThree>>
        /\ args[w] = <<ArgThree>>

\* The accumulator of v.
Accumulator(v) == IF kind[v] = "Printer" THEN output[v] ELSE args[v]

Keeps(v, arg) == ctor[v] \/ ~arg.const

\* What a newly constructed visitor of v's class and constructor argument
\* leaves after the traversal of t.
Alone(v, t) ==
    IF kind[v] = "Printer" THEN Render(t)
    ELSE SelectSeq(Occurrences(t), LAMBDA arg : Keeps(v, arg))

\* C8: a traversal that follows reset() leaves the accumulator a newly
\* constructed visitor of the same configuration leaves on that tree,
\* whatever was traversed before, and as the first traversal of the same
\* visitor left on that tree; getconsts stays the constructor's.
C8_ResetNoLeak ==
    \A v \in Visitors :
        /\ getconsts[v] = ctor[v]
        /\ (status[v] = "returned" /\ sinceReset[v] = 1)
            => /\ Accumulator(v) = Alone(v, root[v])
               /\ (done[v][1].root = root[v] /\ done[v][1].n = 1)
                    => Accumulator(v) = done[v][1].out

\* A visitor traversed a tree, collected something, was reset and has
\* traversed another tree.
C8_Witness ==
    \E v \in Visitors :
        /\ status[v] = "returned"
        /\ sinceReset[v] = 1
        /\ runs[v] = 2
        /\ Len(done[v]) = 2
        /\ done[v][1].out # <<>>
        /\ done[v][1].root # root[v]
        /\ Accumulator(v) # <<>>

\* An infix operator with fewer than the two children _onInfix reads.
Starved(t) ==
    /\ t.cls = "Operator"
    /\ t.nin = 2
    /\ t.name # t.symbol
    /\ Len(t.args) < 2

Malformed(t) == t.cls = "Operator" /\ Len(t.args) # t.nin

\* The literals of t a Printer is passed when nothing raises: of an infix
\* operator the first two children, of any other operator all of them.
RECURSIVE Reached(_)
Reached(t) ==
    IF t.cls = "Argument" THEN {t}
    ELSE LET n == IF t.nin = 2 /\ t.name # t.symbol /\ Len(t.args) > 2
                  THEN 2
                  ELSE Len(t.args)
         IN  {t} \cup UNION {Reached(t.args[i]) : i \in 1..n}

\* C9 as amended: a traversal ends with an out-of-range error exactly when
\* it is a Printer's and reaches an operator with nin = 2, name != symbol
\* and fewer than two children; every other traversal (any ArgFinder's, a
\* Printer's over any other disagreement of nin and len(args)) returns.
C9_OutOfRange ==
    \A v \in Visitors :
        /\ status[v] = "raised"
            => /\ kind[v] = "Printer"
               /\ \E t \in Reached(root[v]) : Starved(t)
        /\ (status[v] = "returned" /\ kind[v] = "Printer")
            => \A t \in Reached(root[v]) : ~Starved(t)

\* mul(add(x), 2): the Printer raised after writing "((x + ".
C9_Witness ==
    \E v \in Visitors :
        /\ status[v] = "raised"
        /\ root[v] = Op(HeadMul, <<Op(HeadAdd, <<ArgX>>), ArgTwo>>)
        /\ output[v] = <<"(", "(", "x", " ", "+", " ">>

\* C9 as stated: a traversal that reaches an operator whose number of
\* children differs from its nin never returns.
C9_Original ==
    \A v \in Visitors :
        status[v] = "returned"
        => \A t \in Literals(root[v]) : ~Malformed(t)

\* C10: with two visitor instances traversing the same tree, their steps
\* interleaved in any order, each ends as it would alone: with the same
\* accumulator, or with the same error.
C10_Isolation ==
    \A v \in Visitors :
        /\ status[v] = "returned" => Accumulator(v) = Alone(v, root[v])
        /\ status[v] = "raised"
            <=> (/\ kind[v] = "Printer"
                 /\ stack[v] = <<>>
                 /\ runs[v] = 1
                 /\ \E t \in Reached(root[v]) : Starved(t))

\* One visitor has returned from the tree while the other is inside it.
C10_Witness ==
    \E v, w \in Visitors :
        /\ v # w
        /\ status[v] = "returned"
        /\ status[w] = "running"
        /\ Len(stack[w]) = 3
        /\ root[v] = tree
        /\ root[w] = tree
        /\ Accumulator(v) # <<>>
        /\ Accumulator(w) # <<>>
====
